---- MODULE Spec2Model ----
(***************************************************************************)
(* A model of megadl (tools/dl.c): the link parsers, the retry loops of    *)
(* the top-level download and of the per-file step of the tree sync, the   *)
(* recursive directory sync, the status callback and main's dispatch.      *)
(*                                                                         *)
(* Strings that the program inspects character by character (the links)    *)
(* are sequences of one-character strings.  The links of the model are     *)
(* ASCII, on which tool_convert_filename (locale to UTF-8) changes nothing.*)
(***************************************************************************)
EXTENDS Integers, Sequences, FiniteSets, TLC

VARIABLES
  opt_path,        \* --path: "-" (stdout), "." (a directory), "f" (a regular file)
  opt_stream,      \* dl.c:27
  opt_noprogress,  \* dl.c:28
  opt_print_names, \* dl.c:29
  av,              \* av[1..ac-1]: the links given on the command line
  fs,              \* local file system below opt_path: path -> "missing" | "file" | "dir"
  pc,              \* position of the single thread of control
  i,               \* main's loop index, 1-based over av
  status,          \* main's status (dl.c:178)
  ret,             \* main's return value once pc = "done", -1 before
  attempts,        \* attempts of the retry loop in progress (dl.c:67, dl.c:234)
  sleep_amt,       \* sleep_amt of the retry loop in progress, microseconds
  cur_file,        \* dl.c:39
  stack,           \* the active dl_sync_dir and dl_sync_file calls, innermost last
  xfer,            \* the session call in progress: chunks and other events delivered
  out,             \* what was written to stdout while stdout is the object stream
  msg,             \* the lines printed by the latest step
  tty,             \* the progress line last rendered by tool_show_progress
  loopLog,         \* the fetches and sleeps of the retry loop in progress, in order
  failed,          \* the references that ended in failure
  processed,       \* how each reference dispatched so far was classified
  net_called,      \* whether any session transfer operation was invoked
  fileRes,         \* how the file step of each remote node of the current folder ended
  root_list,       \* main's l (dl.c:299): the root listing of the folder just opened
  reported,        \* whether the top-level retry loop in progress printed an error line
  raw,             \* classifier development: the string classified
  upSet,           \* classifier development: the positions upper-cased in the variant
  parsed,          \* classifier development: classification of raw
  parsedUp         \* classifier development: classification of the variant

mainVars == <<opt_path, opt_stream, opt_noprogress, opt_print_names, av, fs, pc, i,
              status, ret, attempts, sleep_amt, cur_file, stack, xfer,
              out, msg, tty, loopLog, failed, processed, net_called, fileRes,
              root_list, reported>>
clsVars == <<raw, upSet, parsed, parsedUp>>
vars == <<mainVars, root_list, reported, clsVars>>

\* ------------------------------------------------------------------ bounds
MaxRefs == 2
MaxEvents == 1
MaxPad == 1

\* ------------------------------------------------------------ characters
LowerLetters == <<"a","b","c","d","e","f","g","h","i","j","k","l","m",
                  "n","o","p","q","r","s","t","u","v","w","x","y","z">>
UpperLetters == <<"A","B","C","D","E","F","G","H","I","J","K","L","M",
                  "N","O","P","Q","R","S","T","U","V","W","X","Y","Z">>
Digits == {"0","1","2","3","4","5","6","7","8","9"}

Range(s) == {s[k] : k \in DOMAIN s}

ToLower(c) ==
  IF c \in Range(UpperLetters)
    THEN LowerLetters[CHOOSE k \in DOMAIN UpperLetters : UpperLetters[k] = c]
    ELSE c

ToUpper(c) ==
  IF c \in Range(LowerLetters)
    THEN UpperLetters[CHOOSE k \in DOMAIN LowerLetters : LowerLetters[k] = c]
    ELSE c

Rep(c, n) == [k \in 1..n |-> c]

\* ------------------------------------------------------- the link parsers
\* G_REGEX_CASELESS (dl.c:208, dl.c:211): characters are compared after case folding.
CaseSensitive(c) == c
Caseless(c) == ToLower(c)

\* The character class [a-z0-9_-] of both patterns.
InClass(c) == Caseless(c) \in Range(LowerLetters) \cup Digits \cup {"_", "-"}

\* A literal piece of the pattern matched at subject[from+1 .. from+Len(lit)].
LitAt(subject, from, lit) ==
  /\ from + Len(lit) <= Len(subject)
  /\ \A k \in 1..Len(lit) : Caseless(subject[from + k]) = Caseless(lit[k])

\* ([a-z0-9_-]{n}) matched at subject[from+1 .. from+n].
ClassAt(subject, from, n) ==
  /\ from + n <= Len(subject)
  /\ \A k \in 1..n : InClass(subject[from + k])

\* PCRE's $ without G_REGEX_DOLLAR_ENDONLY and without G_REGEX_MULTILINE: at the
\* very end of the subject, or just before a newline that is its last character.
DollarAt(subject, from) ==
  \/ from = Len(subject)
  \/ from + 1 = Len(subject) /\ subject[from + 1] = "\n"

HandleLen == 8
FileKeyLen == 43
FolderKeyLen == 22

FileMarker == <<"#", "!">>
FolderMarker == <<"#", "F", "!">>

\* The literal prefix ^https?://mega(?:\.co)?\.nz/<marker> for one choice of the
\* two optional pieces.
PatternPrefix(withS, withCo, marker) ==
  <<"h","t","t","p">> \o (IF withS THEN <<"s">> ELSE <<>>)
    \o <<":","/","/","m","e","g","a">>
    \o (IF withCo THEN <<".","c","o">> ELSE <<>>)
    \o <<".","n","z","/">> \o marker

\* One way through the pattern: prefix, handle group, "!", key group, $.
MatchesVia(subject, withS, withCo, marker, keyLen) ==
  LET p == Len(PatternPrefix(withS, withCo, marker))
  IN  /\ LitAt(subject, 0, PatternPrefix(withS, withCo, marker))
      /\ ClassAt(subject, p, HandleLen)
      /\ LitAt(subject, p + HandleLen, <<"!">>)
      /\ ClassAt(subject, p + HandleLen + 1, keyLen)
      /\ DollarAt(subject, p + HandleLen + 1 + keyLen)

\* g_regex_match followed by g_match_info_fetch(m, 1) and (m, 2).
RegexMatch(subject, marker, keyLen) ==
  LET ways == {w \in BOOLEAN \X BOOLEAN :
                 MatchesVia(subject, w[1], w[2], marker, keyLen)}
  IN  IF ways = {}
        THEN [matched |-> FALSE, handle |-> <<>>, key |-> <<>>]
        ELSE LET w == CHOOSE x \in ways : TRUE
                 p == Len(PatternPrefix(w[1], w[2], marker))
             IN  [matched |-> TRUE,
                  handle  |-> SubSeq(subject, p + 1, p + HandleLen),
                  key     |-> SubSeq(subject, p + HandleLen + 2,
                                     p + HandleLen + 1 + keyLen)]

\* main's if / else if / else over the two parsers (dl.c:229, dl.c:276, dl.c:326).
classify(link) ==
  LET m1 == RegexMatch(link, FileMarker, FileKeyLen)
      m2 == RegexMatch(link, FolderMarker, FolderKeyLen)
  IN  IF m1.matched THEN [tag |-> "file", handle |-> m1.handle, key |-> m1.key]
      ELSE IF m2.matched THEN [tag |-> "folder", handle |-> m2.handle, key |-> m2.key]
      ELSE [tag |-> "invalid", handle |-> <<>>, key |-> <<>>]

\* ------------------------------------------------- the world of a run
\* The links a command line of the model is drawn from.
LinkOf(scheme, host, marker, handle, key, tail) ==
  scheme \o <<":","/","/">> \o host \o <<"/">> \o marker \o handle \o <<"!">> \o key \o tail

Https == <<"h","t","t","p","s">>
MegaNz == <<"m","e","g","a",".","n","z">>
FileLink == LinkOf(Https, MegaNz, FileMarker, Rep("a", HandleLen), Rep("k", FileKeyLen), <<>>)
FolderLink == LinkOf(Https, MegaNz, FolderMarker, Rep("b", HandleLen), Rep("q", FolderKeyLen), <<>>)
BadLink == LinkOf(Https, MegaNz, FileMarker, Rep("a", HandleLen), Rep("k", FolderKeyLen), <<>>)
Links == {FileLink, FolderLink, BadLink}

\* The remote file system of the exported folder: mega_node, by node id.
\* type 0 is a file (dl.c:157); children in the session's order.
RootNode == 1
RemoteTree ==
  [n \in 1..4 |->
     CASE n = 1 -> [name |-> "Root", type |-> 1, children |-> <<2, 3>>]
       [] n = 2 -> [name |-> "a",    type |-> 0, children |-> <<>>]
       [] n = 3 -> [name |-> "d",    type |-> 1, children |-> <<4>>]
       [] n = 4 -> [name |-> "b",    type |-> 0, children |-> <<>>]]
Nodes == DOMAIN RemoteTree

\* mega_session_get_node_chilren(s, node)
mega_session_get_node_chilren(node) == RemoteTree[node].children

\* mega_node_get_path_dup(root_node): the remote path, as its components.
mega_node_get_path_dup(node) == <<RemoteTree[node].name>>

\* Local paths below opt_path, as their components; <<>> is opt_path itself.
LocalPaths == {<<>>, <<"a">>, <<"d">>, <<"d", "b">>}

\* g_file_get_child(file, name) and g_strconcat(remote_path, "/", name, NULL)
g_file_get_child(file, name) == Append(file, name)
ChildRemotePath(remote_path, name) == Append(remote_path, name)

\* The local file systems a run may start from.
EmptyDir == [p \in LocalPaths |-> IF p = <<>> THEN "dir" ELSE "missing"]
InitialFileSystems(path) ==
  IF path = "." 
    THEN {EmptyDir,
          [EmptyDir EXCEPT ![<<"a">>] = "file"],
          [EmptyDir EXCEPT ![<<"a">>] = "dir"],
          [EmptyDir EXCEPT ![<<"d">>] = "file"],
          [EmptyDir EXCEPT ![<<"d">>] = "dir"]}
    ELSE {[EmptyDir EXCEPT ![<<>>] = "file"]}

\* g_file_query_exists and g_file_query_file_type(...) == G_FILE_TYPE_DIRECTORY
AnyExisting(fsys, file) == fsys[file] # "missing"
IsRegularFile(fsys, file) == fsys[file] = "file"
g_file_query_exists(fsys, file) == fsys[file] # "missing"
IsDirectory(fsys, file) == fsys[file] = "dir"

\* The GErrors a session call may fail with.
NoError == [domain |-> "none", code |-> "none"]
MegaErrorOther == [domain |-> "MEGA_ERROR", code |-> "MEGA_ERROR_OTHER"]
HttpErrorNoResponse == [domain |-> "HTTP_ERROR", code |-> "HTTP_ERROR_NO_RESPONSE"]
Errors == {MegaErrorOther, HttpErrorNoResponse}

g_error_matches(err, domain, code) == err.domain = domain /\ err.code = code

\* The condition of the break at dl.c:99 and dl.c:256.
RetryEverything(err) == FALSE
NoRetry(err) == g_error_matches(err, "MEGA_ERROR", "MEGA_ERROR_OTHER")

\* The object behind a file link or a remote file node: the buffers the session
\* hands to the status callback for it, in order, and the names it may announce.
ObjectChunks == <<"c1", "c2">>
Names == {"n1", "n2"}
NoCall == [sent |-> 0, evs |-> 0]

\* The status events the session may deliver next during the call in progress.
StatusData ==
  (IF xfer.sent < Len(ObjectChunks)
     THEN {[type |-> "MEGA_STATUS_DATA", buf |-> ObjectChunks[xfer.sent + 1], name |-> "-"]}
     ELSE {})
  \cup
  (IF xfer.evs < MaxEvents
     THEN {[type |-> "MEGA_STATUS_FILEINFO", buf |-> "-", name |-> n] : n \in Names}
          \cup {[type |-> "MEGA_STATUS_PROGRESS", buf |-> "-", name |-> "-"]}
     ELSE {})

MoreAttempts == 5 + 1
\* Retry constants of both loops.
MaxAttempts == 5
FirstSleep == 2000000

\* sleep_amt <<= 1 on a gint64 (the values of a run stay far below 2^63)
KeepSleep(x) == x
ShiftLeft1(x) == 2 * x

\* ------------------------------------------------------------- printing
ErrLine(text, arg) == [fd |-> "stderr", text |-> text, arg |-> arg]
OutLine(text, arg) == [fd |-> "stdout", text |-> text, arg |-> arg]
IsStdout(l) == l.fd = "stdout"
Texts(lines) == [k \in DOMAIN lines |-> lines[k].text]

\* g_print / g_printerr of the lines of one step, in order.
Emit(lines) ==
  /\ msg' = lines
  /\ out' = IF opt_stream THEN out \o Texts(SelectSeq(lines, IsStdout)) ELSE out

AttemptLine == OutLine("Attempt #%d failed, trying again in %ld seconds...", "")

FetchEntry(err) == [op |-> "fetch", amt |-> 0, err |-> err]
SleepEntry(amt) == [op |-> "sleep", amt |-> amt, err |-> NoError]

NoParse == [tag |-> "none", handle |-> <<>>, key |-> <<>>]
NoFileRes == [n \in Nodes |-> "none"]

\* ------------------------------------------------------------------ Init
\* The state when main is entered, after tool_init has parsed the options.
Init ==
  /\ opt_path \in {"-", ".", "f"}
  /\ opt_stream = FALSE
  /\ opt_noprogress \in BOOLEAN
  /\ opt_print_names \in BOOLEAN
  /\ av \in UNION {[1..n -> Links] : n \in 0..MaxRefs}
  /\ fs \in InitialFileSystems(opt_path)
  /\ pc = "start"
  /\ i = 0
  /\ status = 0
  /\ ret = -1
  /\ attempts = 0
  /\ sleep_amt = 0
  /\ cur_file = "NULL"
  /\ stack = <<>>
  /\ xfer = NoCall
  /\ out = <<>>
  /\ msg = <<>>
  /\ tty = "-"
  /\ loopLog = <<>>
  /\ failed = {}
  /\ processed = <<>>
  /\ net_called = FALSE
  /\ fileRes = NoFileRes
  /\ root_list = <<>>
  /\ reported = FALSE
  /\ raw = <<>>
  /\ upSet = {}
  /\ parsed = NoParse
  /\ parsedUp = NoParse

\* --------------------------------------------------- main, before the loop
\* dl.c:192 and dl.c:199
NoLinks(ac) == ac < 2
NeverReject(stream, ac) == FALSE
StreamMultiple(stream, ac) == stream /\ ac # 2

\* dl.c:180-218: the stream switch, the usage checks, the session set-up.
MainStart ==
  /\ pc = "start"
  /\ LET stream == (opt_path = "-")
         ac == Len(av) + 1
     IN  /\ opt_stream' = (opt_stream \/ stream)
         /\ opt_noprogress' = (opt_noprogress \/ stream)
         /\ IF NoLinks(ac)
              THEN /\ Emit(<<ErrLine("ERROR: No links specified for download!", "")>>)
                   /\ ret' = 1 /\ pc' = "done" /\ i' = i
              ELSE IF StreamMultiple(stream, ac)
                THEN /\ Emit(<<ErrLine("ERROR: Can't stream from multiple files!", "")>>)
                     /\ ret' = 1 /\ pc' = "done" /\ i' = i
                ELSE /\ Emit(<<>>)
                     /\ ret' = ret /\ pc' = "loop" /\ i' = 1
  /\ UNCHANGED <<opt_path, opt_print_names, av, fs, status, attempts, sleep_amt,
                 cur_file, stack, xfer, tty, loopLog, failed, processed, net_called,
                 fileRes, root_list, reported, clsVars>>

\* dl.c:221 with i = ac, then dl.c:332-333
MainReturn ==
  /\ pc = "loop"
  /\ i > Len(av)
  /\ ret' = status
  /\ pc' = "done"
  /\ Emit(<<>>)
  /\ UNCHANGED <<opt_path, opt_stream, opt_noprogress, opt_print_names, av, fs, i,
                 status, attempts, sleep_amt, cur_file, stack, xfer, tty, loopLog,
                 failed, processed, net_called, fileRes, root_list, reported, clsVars>>

\* ------------------------------------------- main: a link that is no link
SkipInvalidFatal ==
  /\ pc = "loop"
  /\ i <= Len(av)
  /\ classify(av[i]).tag = "invalid"
  /\ Emit(<<ErrLine("WARNING: Skipping invalid Mega download link: %s", av[i])>>)
  /\ processed' = Append(processed, "invalid")
  /\ ret' = 1
  /\ pc' = "done"
  /\ UNCHANGED <<opt_path, opt_stream, opt_noprogress, opt_print_names, av, fs, i,
                 status, attempts, sleep_amt, cur_file, stack, xfer, tty, loopLog,
                 failed, net_called, fileRes, root_list, reported, clsVars>>

\* dl.c:326-329
SkipInvalid ==
  /\ pc = "loop"
  /\ i <= Len(av)
  /\ classify(av[i]).tag = "invalid"
  /\ Emit(<<ErrLine("WARNING: Skipping invalid Mega download link: %s", av[i])>>)
  /\ processed' = Append(processed, "invalid")
  /\ i' = i + 1
  /\ UNCHANGED <<opt_path, opt_stream, opt_noprogress, opt_print_names, av, fs, pc,
                 status, ret, attempts, sleep_amt, cur_file, stack, xfer, tty, loopLog,
                 failed, net_called, fileRes, root_list, reported, clsVars>>

\* ----------------------------------------- main: the top-level download
DispatchFileAdvancing ==
  /\ pc = "loop"
  /\ i <= Len(av)
  /\ classify(av[i]).tag = "file"
  /\ processed' = Append(processed, "file")
  /\ attempts' = 0
  /\ sleep_amt' = FirstSleep
  /\ loopLog' = <<>>
  /\ pc' = "dl_head"
  /\ i' = i + 1
  /\ Emit(<<>>)
  /\ UNCHANGED <<opt_path, opt_stream, opt_noprogress, opt_print_names, av, fs,
                 status, ret, cur_file, stack, xfer, tty, failed, net_called,
                 fileRes, root_list, reported, clsVars>>

\* dl.c:229-235: the file parser matched
DispatchFile ==
  /\ pc = "loop"
  /\ i <= Len(av)
  /\ classify(av[i]).tag = "file"
  /\ processed' = Append(processed, "file")
  /\ attempts' = 0
  /\ sleep_amt' = FirstSleep
  /\ loopLog' = <<>>
  /\ pc' = "dl_head"
  /\ Emit(<<>>)
  /\ UNCHANGED <<opt_path, opt_stream, opt_noprogress, opt_print_names, av, fs, i,
                 status, ret, cur_file, stack, xfer, tty, failed, net_called,
                 fileRes, root_list, reported, clsVars>>

\* dl.c:236-246: one turn of the loop up to the call of mega_session_dl
DlAttempt ==
  /\ pc = "dl_head"
  /\ attempts < MaxAttempts
  /\ IF attempts > 0
       THEN /\ Emit(<<AttemptLine>>)
            /\ loopLog' = Append(loopLog, SleepEntry(sleep_amt))
            /\ sleep_amt' = ShiftLeft1(sleep_amt)
       ELSE /\ Emit(<<>>)
            /\ UNCHANGED <<loopLog, sleep_amt>>
  /\ xfer' = NoCall
  /\ net_called' = TRUE
  /\ pc' = "dl_call"
  /\ UNCHANGED <<opt_path, opt_stream, opt_noprogress, opt_print_names, av, fs, i,
                 status, ret, attempts, cur_file, stack, tty, failed, processed,
                 fileRes, root_list, reported, clsVars>>

\* dl.c:246-263: mega_session_dl returned FALSE with err
DlFail(err) ==
  /\ pc = "dl_call"
  /\ Emit((IF ~opt_noprogress THEN <<OutLine("\\r\\n", "")>> ELSE <<>>)
          \o <<ErrLine("ERROR: Download failed for '%s': %s", av[i])>>)
  /\ status' = 1
  /\ reported' = TRUE
  /\ attempts' = attempts + 1
  /\ loopLog' = Append(loopLog, FetchEntry(err))
  /\ xfer' = NoCall
  /\ pc' = IF NoRetry(err) THEN "dl_done" ELSE "dl_head"
  /\ tty' = IF ~opt_noprogress THEN "-" ELSE tty
  /\ UNCHANGED <<opt_path, opt_stream, opt_noprogress, opt_print_names, av, fs, i,
                 ret, sleep_amt, cur_file, stack, failed, processed, net_called,
                 fileRes, root_list, clsVars>>

\* dl.c:264-273: mega_session_dl returned TRUE, the whole object delivered
DlSuccess ==
  /\ pc = "dl_call"
  /\ xfer.sent = Len(ObjectChunks)
  /\ Emit((IF ~opt_noprogress THEN <<OutLine("Downloaded %s", cur_file)>> ELSE <<>>)
          \o (IF opt_print_names THEN <<OutLine(cur_file, "")>> ELSE <<>>))
  /\ status' = 0
  /\ loopLog' = Append(loopLog, FetchEntry(NoError))
  /\ xfer' = NoCall
  /\ pc' = "dl_done"
  /\ tty' = IF ~opt_noprogress THEN "-" ELSE tty
  /\ UNCHANGED <<opt_path, opt_stream, opt_noprogress, opt_print_names, av, fs, i,
                 ret, attempts, sleep_amt, cur_file, stack, failed, processed,
                 net_called, fileRes, root_list, reported, clsVars>>

\* dl.c:236 with attempts = 5: the loop ends
DlExhausted ==
  /\ pc = "dl_head"
  /\ attempts >= MaxAttempts
  /\ pc' = "dl_done"
  /\ Emit(<<>>)
  /\ UNCHANGED <<opt_path, opt_stream, opt_noprogress, opt_print_names, av, fs, i,
                 status, ret, attempts, sleep_amt, cur_file, stack, xfer, tty, loopLog,
                 failed, processed, net_called, fileRes, root_list, reported, clsVars>>

\* dl.c:274-275 and the i++ of dl.c:221
DlNext ==
  /\ pc = "dl_done"
  /\ failed' = IF loopLog[Len(loopLog)].err # NoError THEN failed \cup {i} ELSE failed
  /\ i' = i + 1
  /\ attempts' = 0
  /\ sleep_amt' = 0
  /\ loopLog' = <<>>
  /\ reported' = FALSE
  /\ pc' = "loop"
  /\ Emit(<<>>)
  /\ UNCHANGED <<opt_path, opt_stream, opt_noprogress, opt_print_names, av, fs,
                 status, ret, cur_file, stack, xfer, tty, processed, net_called,
                 fileRes, root_list, clsVars>>

\* ------------------------------------------------- the status callback
status_callback_first_name(data) ==
  /\ pc \in {"dl_call", "get_call"}
  /\ data \in StatusData
  /\ out' = IF opt_stream /\ data.type = "MEGA_STATUS_DATA" THEN Append(out, data.buf) ELSE out
  /\ cur_file' = IF data.type = "MEGA_STATUS_FILEINFO" /\ cur_file = "NULL"
                   THEN data.name ELSE cur_file
  /\ tty' = IF ~opt_noprogress /\ data.type = "MEGA_STATUS_PROGRESS" THEN cur_file' ELSE tty
  /\ xfer' = IF data.type = "MEGA_STATUS_DATA"
               THEN [xfer EXCEPT !.sent = @ + 1]
               ELSE [xfer EXCEPT !.evs = @ + 1]
  /\ msg' = <<>>
  /\ UNCHANGED <<opt_path, opt_stream, opt_noprogress, opt_print_names, av, fs, pc, i,
                 status, ret, attempts, sleep_amt, stack, loopLog, failed, processed,
                 net_called, fileRes, root_list, reported, clsVars>>

status_callback_writing(data) ==
  /\ pc \in {"dl_call", "get_call"}
  /\ data \in StatusData
  /\ out' = IF data.type = "MEGA_STATUS_DATA" THEN Append(out, data.buf) ELSE out
  /\ cur_file' = IF data.type = "MEGA_STATUS_FILEINFO" THEN data.name ELSE cur_file
  /\ tty' = IF ~opt_noprogress /\ data.type = "MEGA_STATUS_PROGRESS" THEN cur_file' ELSE tty
  /\ xfer' = IF data.type = "MEGA_STATUS_DATA"
               THEN [xfer EXCEPT !.sent = @ + 1]
               ELSE [xfer EXCEPT !.evs = @ + 1]
  /\ msg' = <<>>
  /\ UNCHANGED <<opt_path, opt_stream, opt_noprogress, opt_print_names, av, fs, pc, i,
                 status, ret, attempts, sleep_amt, stack, loopLog, failed, processed,
                 net_called, fileRes, root_list, reported, clsVars>>

\* dl.c:42-59, called by the session during mega_session_dl / mega_session_get
status_callback(data) ==
  /\ pc \in {"dl_call", "get_call"}
  /\ data \in StatusData
  /\ out' = IF opt_stream /\ data.type = "MEGA_STATUS_DATA" THEN Append(out, data.buf) ELSE out
  /\ cur_file' = IF data.type = "MEGA_STATUS_FILEINFO" THEN data.name ELSE cur_file
  /\ tty' = IF ~opt_noprogress /\ data.type = "MEGA_STATUS_PROGRESS" THEN cur_file' ELSE tty
  /\ xfer' = IF data.type = "MEGA_STATUS_DATA"
               THEN [xfer EXCEPT !.sent = @ + 1]
               ELSE [xfer EXCEPT !.evs = @ + 1]
  /\ msg' = <<>>
  /\ UNCHANGED <<opt_path, opt_stream, opt_noprogress, opt_print_names, av, fs, pc, i,
                 status, ret, attempts, sleep_amt, stack, loopLog, failed, processed,
                 net_called, fileRes, root_list, reported, clsVars>>

\* --------------------------------------------------- main: a folder link
\* What mega_session_ls(s, "/", FALSE) may return once a folder is open.
RootListings == {<<>>, <<RootNode>>, <<RootNode, 3>>}

Frame(fn, node, file, remote_path) ==
  [fn |-> fn, node |-> node, file |-> file, remote_path |-> remote_path,
   idx |-> 0, status |-> TRUE, results |-> <<>>, said |-> FALSE]

IsFolderTurn ==
  /\ pc = "loop"
  /\ i <= Len(av)
  /\ classify(av[i]).tag = "folder"

\* dl.c:276-283
FolderStreamReject ==
  /\ IsFolderTurn
  /\ opt_stream
  /\ Emit(<<ErrLine("ERROR: Can't stream from a directory!", "")>>)
  /\ processed' = Append(processed, "folder")
  /\ ret' = 1
  /\ pc' = "done"
  /\ UNCHANGED <<opt_path, opt_stream, opt_noprogress, opt_print_names, av, fs, i,
                 status, attempts, sleep_amt, cur_file, stack, xfer, tty, loopLog,
                 failed, net_called, fileRes, root_list, reported, clsVars>>

\* dl.c:289-294: mega_session_open_exp_folder returned FALSE
FolderOpenFail(err) ==
  /\ IsFolderTurn
  /\ ~opt_stream
  /\ net_called' = TRUE
  /\ Emit(<<ErrLine("ERROR: Can't open folder '%s': %s", av[i])>>)
  /\ processed' = Append(processed, "folder")
  /\ status' = 1
  /\ failed' = failed \cup {i}
  /\ i' = i + 1
  /\ UNCHANGED <<opt_path, opt_stream, opt_noprogress, opt_print_names, av, fs, pc,
                 ret, attempts, sleep_amt, cur_file, stack, xfer, tty, loopLog,
                 fileRes, root_list, reported, clsVars>>

\* dl.c:289-299: mega_session_open_exp_folder returned TRUE; the status
\* callback is registered again and mega_session_ls(s, "/", FALSE) returns l
FolderOpened(l) ==
  /\ IsFolderTurn
  /\ ~opt_stream
  /\ net_called' = TRUE
  /\ processed' = Append(processed, "folder")
  /\ root_list' = l
  /\ pc' = "listed"
  /\ Emit(<<>>)
  /\ UNCHANGED <<opt_path, opt_stream, opt_noprogress, opt_print_names, av, fs, i,
                 status, ret, attempts, sleep_amt, cur_file, stack, xfer, tty, loopLog,
                 failed, fileRes, reported, clsVars>>

\* dl.c:300: g_slist_length(l) == 1
AnyTopLevel(l) == Len(l) >= 1
OneTopLevel(l) == Len(l) = 1

\* dl.c:300, dl.c:317-323: the listing is not one node
FolderBadListing ==
  /\ pc = "listed"
  /\ ~OneTopLevel(root_list)
  /\ Emit(<<ErrLine("ERROR: EXP folder fs has multiple toplevel nodes? Weird!", "")>>)
  /\ status' = 1
  /\ failed' = failed \cup {i}
  /\ root_list' = <<>>
  /\ i' = i + 1
  /\ pc' = "loop"
  /\ UNCHANGED <<opt_path, opt_stream, opt_noprogress, opt_print_names, av, fs,
                 ret, attempts, sleep_amt, cur_file, stack, xfer, tty, loopLog,
                 processed, net_called, fileRes, reported, clsVars>>

\* dl.c:300-305, dl.c:311-315, dl.c:323: one top-level node, opt_path is no directory
FolderNotDirectory ==
  /\ pc = "listed"
  /\ OneTopLevel(root_list)
  /\ ~IsDirectory(fs, <<>>)
  /\ Emit(<<ErrLine("ERROR: %s must be a directory", opt_path)>>)
  /\ status' = 1
  /\ failed' = failed \cup {i}
  /\ root_list' = <<>>
  /\ i' = i + 1
  /\ pc' = "loop"
  /\ UNCHANGED <<opt_path, opt_stream, opt_noprogress, opt_print_names, av, fs,
                 ret, attempts, sleep_amt, cur_file, stack, xfer, tty, loopLog,
                 processed, net_called, fileRes, reported, clsVars>>

\* dl.c:300-308: one top-level node, opt_path is a directory: dl_sync_dir is called
\* on root_node = l->data (the list itself is not read again before dl.c:323)
FolderSync ==
  /\ pc = "listed"
  /\ OneTopLevel(root_list)
  /\ IsDirectory(fs, <<>>)
  /\ stack' = <<Frame("dl_sync_dir", root_list[1], <<>>,
                      mega_node_get_path_dup(root_list[1]))>>
  /\ root_list' = <<>>
  /\ fileRes' = NoFileRes
  /\ pc' = "dir_enter"
  /\ Emit(<<>>)
  /\ UNCHANGED <<opt_path, opt_stream, opt_noprogress, opt_print_names, av, fs, i,
                 status, ret, attempts, sleep_amt, cur_file, xfer, tty, loopLog,
                 failed, processed, net_called, reported, clsVars>>

\* ------------------------------------------------------------ returning
\* dl.c:159-160 and dl.c:164-165: if (!r) status = FALSE
LastChildWins(st, r) == r
Aggregate(st, r) == IF r THEN st ELSE FALSE

\* (fileRes, the record of the folder's file steps, ends with the folder.)
\* A call of dl_sync_file or dl_sync_dir returns result to the frame below it
\* (spoke: whether the call printed an error line, kept in the frames' said),
\* stk being the stack without the callee and callee its node: to the children loop of the parent
\* directory (dl.c:157-166, then i = i->next) or to main (dl.c:308-309, then i++).
ReturnTo(stk, callee, result, spoke) ==
  IF stk = <<>>
    THEN /\ stack' = <<>>
         /\ status' = IF result THEN status ELSE 1
         /\ failed' = IF result THEN failed ELSE failed \cup {i}
         /\ i' = i + 1
         /\ pc' = "loop"
    ELSE LET top == stk[Len(stk)]
         IN  /\ stack' = [stk EXCEPT ![Len(stk)] =
                            [top EXCEPT !.status = Aggregate(top.status, result),
                                        !.idx = top.idx + 1,
                                        !.said = top.said \/ spoke,
                                        !.results = Append(top.results,
                                                           [node |-> callee, r |-> result])]]
             /\ pc' = "dir_loop"
             /\ UNCHANGED <<status, failed, i>>

Top == stack[Len(stack)]
Pop == SubSeq(stack, 1, Len(stack) - 1)

\* --------------------------------------------------------- dl_sync_dir
DirCreatePrintOnly ==
  /\ pc = "dir_enter"
  /\ ~g_file_query_exists(fs, Top.file)
  /\ Emit(IF ~opt_noprogress THEN <<OutLine("D %s", Top.file)>> ELSE <<>>)
  /\ pc' = "dir_loop"
  /\ UNCHANGED <<opt_path, opt_stream, opt_noprogress, opt_print_names, av, fs, i, status,
                 ret, attempts, sleep_amt, cur_file, stack, xfer, tty, loopLog, failed,
                 processed, net_called, fileRes, root_list, reported, clsVars>>

\* dl.c:128-138: the local directory is missing and is created
DirCreate ==
  /\ pc = "dir_enter"
  /\ ~g_file_query_exists(fs, Top.file)
  /\ Emit(IF ~opt_noprogress THEN <<OutLine("D %s", Top.file)>> ELSE <<>>)
  /\ fs' = [fs EXCEPT ![Top.file] = "dir"]
  /\ pc' = "dir_loop"
  /\ UNCHANGED <<opt_path, opt_stream, opt_noprogress, opt_print_names, av, i, status,
                 ret, attempts, sleep_amt, cur_file, stack, xfer, tty, loopLog, failed,
                 processed, net_called, fileRes, root_list, reported, clsVars>>

\* dl.c:128-137: the local directory is missing and g_file_make_directory fails
DirCreateFail ==
  /\ pc = "dir_enter"
  /\ ~g_file_query_exists(fs, Top.file)
  /\ Emit((IF ~opt_noprogress THEN <<OutLine("D %s", Top.file)>> ELSE <<>>)
          \o <<ErrLine("ERROR: Can't create local directory %s: %s", Top.file)>>)
  /\ ReturnTo(Pop, Top.node, FALSE, TRUE)
  /\ fileRes' = IF Pop = <<>> THEN NoFileRes ELSE fileRes
  /\ UNCHANGED <<opt_path, opt_stream, opt_noprogress, opt_print_names, av, fs,
                 ret, attempts, sleep_amt, cur_file, xfer, tty, loopLog,
                 processed, net_called, root_list, reported, clsVars>>

DirNotDirectoryQuiet ==
  /\ pc = "dir_enter"
  /\ g_file_query_exists(fs, Top.file)
  /\ ~IsDirectory(fs, Top.file)
  /\ Emit(<<>>)
  /\ ReturnTo(Pop, Top.node, FALSE, FALSE)
  /\ fileRes' = IF Pop = <<>> THEN NoFileRes ELSE fileRes
  /\ UNCHANGED <<opt_path, opt_stream, opt_noprogress, opt_print_names, av, fs,
                 ret, attempts, sleep_amt, cur_file, xfer, tty, loopLog,
                 processed, net_called, root_list, reported, clsVars>>

\* dl.c:139-145: something that is no directory is in the way
DirNotDirectory ==
  /\ pc = "dir_enter"
  /\ g_file_query_exists(fs, Top.file)
  /\ ~IsDirectory(fs, Top.file)
  /\ Emit(<<ErrLine("ERROR: Can't create local directory %s: file exists", Top.file)>>)
  /\ ReturnTo(Pop, Top.node, FALSE, TRUE)
  /\ fileRes' = IF Pop = <<>> THEN NoFileRes ELSE fileRes
  /\ UNCHANGED <<opt_path, opt_stream, opt_noprogress, opt_print_names, av, fs,
                 ret, attempts, sleep_amt, cur_file, xfer, tty, loopLog,
                 processed, net_called, root_list, reported, clsVars>>

\* dl.c:139-146: the local directory is there already
DirExists ==
  /\ pc = "dir_enter"
  /\ g_file_query_exists(fs, Top.file)
  /\ IsDirectory(fs, Top.file)
  /\ pc' = "dir_loop"
  /\ Emit(<<>>)
  /\ UNCHANGED <<opt_path, opt_stream, opt_noprogress, opt_print_names, av, fs, i,
                 status, ret, attempts, sleep_amt, cur_file, stack, xfer, tty, loopLog,
                 failed, processed, net_called, fileRes, root_list, reported, clsVars>>

\* dl.c:151-166: the next child; dl_sync_file or dl_sync_dir is called on it
SyncChild ==
  /\ pc = "dir_loop"
  /\ Top.idx < Len(mega_session_get_node_chilren(Top.node))
  /\ LET child == mega_session_get_node_chilren(Top.node)[Top.idx + 1]
         child_remote_path == ChildRemotePath(Top.remote_path, RemoteTree[child].name)
         child_file == g_file_get_child(Top.file, RemoteTree[child].name)
     IN  IF RemoteTree[child].type = 0
           THEN /\ stack' = Append(stack, Frame("dl_sync_file", child, child_file,
                                                child_remote_path))
                /\ pc' = "file_enter"
           ELSE /\ stack' = Append(stack, Frame("dl_sync_dir", child, child_file,
                                                child_remote_path))
                /\ pc' = "dir_enter"
  /\ Emit(<<>>)
  /\ UNCHANGED <<opt_path, opt_stream, opt_noprogress, opt_print_names, av, fs, i,
                 status, ret, attempts, sleep_amt, cur_file, xfer, tty, loopLog,
                 failed, processed, net_called, fileRes, root_list, reported, clsVars>>

\* dl.c:151 with i = NULL, then dl.c:169-170
DirReturn ==
  /\ pc = "dir_loop"
  /\ Top.idx >= Len(mega_session_get_node_chilren(Top.node))
  /\ ReturnTo(Pop, Top.node, Top.status, Top.said)
  /\ Emit(<<>>)
  /\ fileRes' = IF Pop = <<>> THEN NoFileRes ELSE fileRes
  /\ UNCHANGED <<opt_path, opt_stream, opt_noprogress, opt_print_names, av, fs,
                 ret, attempts, sleep_amt, cur_file, xfer, tty, loopLog,
                 processed, net_called, root_list, reported, clsVars>>

\* -------------------------------------------------------- dl_sync_file
\* dl.c:71-75
FileExists ==
  /\ pc = "file_enter"
  /\ g_file_query_exists(fs, Top.file)
  /\ Emit(<<ErrLine("ERROR: File already exists at %s", Top.file)>>)
  /\ fileRes' = [fileRes EXCEPT ![Top.node] = "exists"]
  /\ ReturnTo(Pop, Top.node, FALSE, TRUE)
  /\ UNCHANGED <<opt_path, opt_stream, opt_noprogress, opt_print_names, av, fs,
                 ret, attempts, sleep_amt, cur_file, xfer, tty, loopLog,
                 processed, net_called, root_list, reported, clsVars>>

\* dl.c:66-78: nothing is in the way
FileBegin ==
  /\ pc = "file_enter"
  /\ ~g_file_query_exists(fs, Top.file)
  /\ Emit(IF ~opt_noprogress THEN <<OutLine("F %s", Top.file)>> ELSE <<>>)
  /\ attempts' = 0
  /\ sleep_amt' = FirstSleep
  /\ loopLog' = <<>>
  /\ pc' = "get_head"
  /\ UNCHANGED <<opt_path, opt_stream, opt_noprogress, opt_print_names, av, fs, i,
                 status, ret, cur_file, stack, xfer, tty, failed, processed,
                 net_called, fileRes, root_list, reported, clsVars>>

GetAttemptFlatWait ==
  /\ pc = "get_head"
  /\ attempts < MaxAttempts
  /\ IF attempts > 0
       THEN /\ Emit(<<AttemptLine>>)
            /\ loopLog' = Append(loopLog, SleepEntry(sleep_amt))
       ELSE /\ Emit(<<>>)
            /\ UNCHANGED loopLog
  /\ xfer' = NoCall
  /\ net_called' = TRUE
  /\ pc' = "get_call"
  /\ UNCHANGED <<opt_path, opt_stream, opt_noprogress, opt_print_names, av, fs, i,
                 status, ret, attempts, sleep_amt, cur_file, stack, tty, failed,
                 processed, fileRes, root_list, reported, clsVars>>

\* dl.c:80-89: one turn of the loop up to the call of mega_session_get
GetAttempt ==
  /\ pc = "get_head"
  /\ attempts < MaxAttempts
  /\ IF attempts > 0
       THEN /\ Emit(<<AttemptLine>>)
            /\ loopLog' = Append(loopLog, SleepEntry(sleep_amt))
            /\ sleep_amt' = ShiftLeft1(sleep_amt)
       ELSE /\ Emit(<<>>)
            /\ UNCHANGED <<loopLog, sleep_amt>>
  /\ xfer' = NoCall
  /\ net_called' = TRUE
  /\ pc' = "get_call"
  /\ UNCHANGED <<opt_path, opt_stream, opt_noprogress, opt_print_names, av, fs, i,
                 status, ret, attempts, cur_file, stack, tty, failed, processed,
                 fileRes, root_list, reported, clsVars>>

\* dl.c:89-103: mega_session_get returned FALSE with err; the session may have
\* left a partial file at local_path
GetFail(err, partial) ==
  /\ pc = "get_call"
  /\ Emit((IF ~opt_noprogress THEN <<OutLine("\\r", "")>> ELSE <<>>)
          \o <<ErrLine("ERROR: Download failed for %s: %s", Top.remote_path)>>)
  /\ fs' = [fs EXCEPT ![Top.file] = IF partial THEN "file" ELSE "missing"]
  /\ stack' = [stack EXCEPT ![Len(stack)] = [Top EXCEPT !.status = FALSE, !.said = TRUE]]
  /\ attempts' = attempts + 1
  /\ loopLog' = Append(loopLog, FetchEntry(err))
  /\ xfer' = NoCall
  /\ pc' = IF NoRetry(err) THEN "get_done" ELSE "get_head"
  /\ tty' = IF ~opt_noprogress THEN "-" ELSE tty
  /\ UNCHANGED <<opt_path, opt_stream, opt_noprogress, opt_print_names, av, i,
                 status, ret, sleep_amt, cur_file, failed, processed, net_called,
                 fileRes, root_list, reported, clsVars>>

GetSuccessKeepingStatus ==
  /\ pc = "get_call"
  /\ xfer.sent = Len(ObjectChunks)
  /\ fs' = [fs EXCEPT ![Top.file] = "file"]
  /\ loopLog' = Append(loopLog, FetchEntry(NoError))
  /\ xfer' = NoCall
  /\ pc' = "get_done"
  /\ Emit(<<>>)
  /\ UNCHANGED <<opt_path, opt_stream, opt_noprogress, opt_print_names, av, i,
                 status, ret, attempts, sleep_amt, cur_file, stack, tty, failed,
                 processed, net_called, fileRes, root_list, reported, clsVars>>

\* dl.c:104-108: mega_session_get returned TRUE, the file is at local_path
GetSuccess ==
  /\ pc = "get_call"
  /\ xfer.sent = Len(ObjectChunks)
  /\ fs' = [fs EXCEPT ![Top.file] = "file"]
  /\ stack' = [stack EXCEPT ![Len(stack)] = [Top EXCEPT !.status = TRUE]]
  /\ loopLog' = Append(loopLog, FetchEntry(NoError))
  /\ xfer' = NoCall
  /\ pc' = "get_done"
  /\ Emit(<<>>)
  /\ UNCHANGED <<opt_path, opt_stream, opt_noprogress, opt_print_names, av, i,
                 status, ret, attempts, sleep_amt, cur_file, tty, failed, processed,
                 net_called, fileRes, root_list, reported, clsVars>>

\* dl.c:80 with attempts = 5: the loop ends
GetExhausted ==
  /\ pc = "get_head"
  /\ attempts >= MaxAttempts
  /\ pc' = "get_done"
  /\ Emit(<<>>)
  /\ UNCHANGED <<opt_path, opt_stream, opt_noprogress, opt_print_names, av, fs, i,
                 status, ret, attempts, sleep_amt, cur_file, stack, xfer, tty, loopLog,
                 failed, processed, net_called, fileRes, root_list, reported, clsVars>>

\* How a finished retry loop ended, from its last fetch.
Outcome(log) ==
  LET e == log[Len(log)].err
  IN  IF e = NoError THEN "ok" ELSE IF NoRetry(e) THEN "permanent" ELSE "exhausted"

\* dl.c:111-120
FileReturn ==
  /\ pc = "get_done"
  /\ Emit(IF Top.status
            THEN (IF ~opt_noprogress THEN <<OutLine("\\r", "")>> ELSE <<>>)
                 \o (IF opt_print_names THEN <<OutLine("%s", Top.file)>> ELSE <<>>)
            ELSE <<>>)
  /\ fileRes' = [fileRes EXCEPT ![Top.node] = Outcome(loopLog)]
  /\ attempts' = 0
  /\ sleep_amt' = 0
  /\ loopLog' = <<>>
  /\ ReturnTo(Pop, Top.node, Top.status, Top.said)
  /\ tty' = IF ~opt_noprogress THEN "-" ELSE tty
  /\ UNCHANGED <<opt_path, opt_stream, opt_noprogress, opt_print_names, av, fs,
                 ret, cur_file, xfer, processed, net_called, root_list, reported, clsVars>>

\* ------------------------------------------------------------------ Spec
Next ==
  \/ MainStart
  \/ MainReturn
  \/ SkipInvalid
  \/ DispatchFile
  \/ DlAttempt
  \/ \E err \in Errors : DlFail(err)
  \/ DlSuccess
  \/ DlExhausted
  \/ DlNext
  \/ \E data \in StatusData : status_callback(data)
  \/ FolderStreamReject
  \/ \E err \in Errors : FolderOpenFail(err)
  \/ \E l \in RootListings : FolderOpened(l)
  \/ FolderBadListing
  \/ FolderNotDirectory
  \/ FolderSync
  \/ DirCreate
  \/ DirCreateFail
  \/ DirNotDirectory
  \/ DirExists
  \/ SyncChild
  \/ DirReturn
  \/ FileExists
  \/ FileBegin
  \/ GetAttempt
  \/ \E err \in Errors, partial \in BOOLEAN : GetFail(err, partial)
  \/ GetSuccess
  \/ GetExhausted
  \/ FileReturn

Spec == Init /\ [][Next]_vars

\* ------------------------------------------------ classifying one string
\* The strings classified: scheme, host, marker, handle, key and tail are
\* drawn independently, so every part is right in some and wrong in others.
Cycle(sample, n) == [k \in 1..n |-> sample[((k - 1) % Len(sample)) + 1]]
LowerBody(n) == Cycle(<<"a", "b", "0", "_", "-", "z", "9", "q">>, n)
MixedBody(n) == Cycle(<<"a", "B", "0", "_", "-", "Z", "9", "q">>, n)
BadBody(n) == [LowerBody(n) EXCEPT ![n] = "+"]

Around(n) == (n - MaxPad)..(n + MaxPad)
Schemes == {<<"h","t","t","p">>, Https, <<"f","t","p">>}
Hosts == {MegaNz, <<"m","e","g","a",".","c","o",".","n","z">>,
          <<"m","e","g","a","x","n","z">>}
Markers == {FileMarker, FolderMarker, <<"#", "f", "!">>}
Handles == {LowerBody(n) : n \in Around(HandleLen)}
           \cup {MixedBody(HandleLen), BadBody(HandleLen)}
Keys == {LowerBody(n) : n \in Around(FileKeyLen) \cup Around(FolderKeyLen)}
        \cup {MixedBody(FileKeyLen), BadBody(FileKeyLen), BadBody(FolderKeyLen)}
Tails == {<<>>} \cup {Rep("\n", n) : n \in 1..MaxPad} \cup {Rep("x", n) : n \in 1..MaxPad}
ClassifyInputs ==
  {LinkOf(sc, ho, ma, ha, ke, ta) :
     sc \in Schemes, ho \in Hosts, ma \in Markers, ha \in Handles, ke \in Keys, ta \in Tails}

\* The sets of positions upper-cased in the variant of a string.
UpperSets(s) ==
  {{}, 1..Len(s), 1..4, {k \in 1..Len(s) : k % 2 = 0}, {k \in 1..Len(s) : k > 12}}
UpperAt(s, S) == [k \in 1..Len(s) |-> IF k \in S THEN ToUpper(s[k]) ELSE s[k]]

InitClassify ==
  /\ raw \in ClassifyInputs
  /\ upSet \in UpperSets(raw)
  /\ parsed = NoParse
  /\ parsedUp = NoParse
  /\ pc = "classify"
  /\ opt_path = "."
  /\ opt_stream = FALSE
  /\ opt_noprogress = FALSE
  /\ opt_print_names = FALSE
  /\ av = <<>>
  /\ fs = EmptyDir
  /\ i = 0
  /\ status = 0
  /\ ret = -1
  /\ attempts = 0
  /\ sleep_amt = 0
  /\ cur_file = "NULL"
  /\ stack = <<>>
  /\ xfer = NoCall
  /\ out = <<>>
  /\ msg = <<>>
  /\ tty = "-"
  /\ loopLog = <<>>
  /\ failed = {}
  /\ processed = <<>>
  /\ net_called = FALSE
  /\ fileRes = NoFileRes
  /\ root_list = <<>>
  /\ reported = FALSE

\* dl.c:229-232, dl.c:276, dl.c:285-286 on the string
ClassifyRaw ==
  /\ pc = "classify"
  /\ parsed = NoParse
  /\ parsed' = classify(raw)
  /\ UNCHANGED <<raw, upSet, parsedUp, mainVars>>

\* the same on the string with the positions of upSet upper-cased
ClassifyVariant ==
  /\ pc = "classify"
  /\ parsedUp = NoParse
  /\ parsedUp' = classify(UpperAt(raw, upSet))
  /\ UNCHANGED <<raw, upSet, parsed, mainVars>>

NextClassify == ClassifyRaw \/ ClassifyVariant

SpecClassify == InitClassify /\ [][NextClassify]_vars

\* =================================================================
\* Properties
\* =================================================================
IsTransient(err) == err = HttpErrorNoResponse
IsPermanent(err) == err = MegaErrorOther
Fetches(log) == SelectSeq(log, LAMBDA e : e.op = "fetch")
Sleeps(log) == SelectSeq(log, LAMBDA e : e.op = "sleep")
LoopEnded == pc \in {"dl_done", "get_done"}
\* The verdict of the retry loop that has just ended.
LoopVerdictFailure == IF pc = "dl_done" THEN status = 1 ELSE Top.status = FALSE

\* C1: when main returns from the end of its loop, the exit status is 0 exactly
\* when no reference failed, wherever in the list the failing reference stands.
C1_ExitStatusReflectsEveryFailure ==
  (pc = "done" /\ i > Len(av)) => ((ret = 0) <=> (failed = {}))

\* C2: a retry loop (top-level download or file step of the tree sync) whose
\* every fetch failed with a transient error made exactly 5 fetches and slept
\* 2s, 4s, 8s, 16s, one sleep between two consecutive fetches and none after
\* the fifth, and ended in failure.
AllTransientLog ==
  <<FetchEntry(HttpErrorNoResponse), SleepEntry(2000000),
    FetchEntry(HttpErrorNoResponse), SleepEntry(4000000),
    FetchEntry(HttpErrorNoResponse), SleepEntry(8000000),
    FetchEntry(HttpErrorNoResponse), SleepEntry(16000000),
    FetchEntry(HttpErrorNoResponse)>>
C2_TransientEveryAttempt ==
  (LoopEnded /\ \A k \in DOMAIN loopLog :
                   loopLog[k].op = "fetch" => IsTransient(loopLog[k].err))
    => (loopLog = AllTransientLog /\ LoopVerdictFailure)
C2_Witness ==
  /\ pc = "get_done"
  /\ loopLog = AllTransientLog
  /\ Top.status = FALSE

\* C3: in both retry loops nothing follows a fetch that did not fail with a
\* transient error: after a permanent error on attempt k the loop has ended in
\* failure with exactly k fetches, no further sleep and no further fetch.
C3_RetryOnlyTransient ==
  \A k \in DOMAIN loopLog :
    (loopLog[k].op = "fetch" /\ ~IsTransient(loopLog[k].err))
      => /\ k = Len(loopLog)
         /\ LoopEnded
         /\ IsPermanent(loopLog[k].err)
              => /\ LoopVerdictFailure
                 /\ attempts = Len(Fetches(loopLog))
                 /\ Len(Sleeps(loopLog)) = attempts - 1
C3_Witness ==
  /\ pc = "dl_done"
  /\ Len(Fetches(loopLog)) = 3
  /\ IsPermanent(loopLog[Len(loopLog)].err)
  /\ status = 1

\* C4: a file step of the tree sync that finds its local path existing (as a
\* file or as a directory) returns FALSE at once with the "already exists"
\* error: no fetch is issued, no retry loop is entered, the file system is
\* left as it was.
C4_NoFetchOverExisting ==
  [][(pc = "file_enter" /\ fs[Top.file] # "missing")
       => /\ pc' = "dir_loop"
          /\ msg' = <<ErrLine("ERROR: File already exists at %s", Top.file)>>
          /\ fs' = fs
          /\ loopLog' = loopLog
          /\ net_called' = net_called
          /\ xfer' = xfer
          /\ stack'[Len(stack')].results[Len(stack'[Len(stack')].results)]
               = [node |-> Top.node, r |-> FALSE]]_vars
C4_Witness ==
  /\ pc = "dir_loop"
  /\ fileRes[2] = "exists"
  /\ fs[<<"a">>] = "dir"
  /\ Top.results = <<[node |-> 2, r |-> FALSE]>>

\* C5: a dl_sync_dir call past its own creation / type check has visited its
\* children in the session's order, one result each, whether or not an earlier
\* one failed, and its status is TRUE exactly when all of them returned TRUE;
\* when the root's walk is over and exactly one leaf file failed, permanently,
\* the others having been fetched, the root's status is FALSE and each of the
\* others is a file at its local path.
LeafFiles == {n \in Nodes : RemoteTree[n].type = 0}
LocalPathOf(n) ==
  CASE n = 1 -> <<>> [] n = 2 -> <<"a">> [] n = 3 -> <<"d">> [] n = 4 -> <<"d", "b">>
DirFrameSound(f) ==
  LET children == RemoteTree[f.node].children
  IN  /\ Len(f.results) = f.idx
      /\ f.idx <= Len(children)
      /\ \A k \in DOMAIN f.results : f.results[k].node = children[k]
      /\ f.status = (\A k \in DOMAIN f.results : f.results[k].r)
RootWalkOver ==
  /\ pc = "dir_loop"
  /\ Len(stack) = 1
  /\ Top.idx = Len(RemoteTree[Top.node].children)
C5_DirAggregatesEveryChild ==
  /\ \A d \in DOMAIN stack :
       (stack[d].fn = "dl_sync_dir" /\ (d < Len(stack) \/ pc = "dir_loop"))
         => DirFrameSound(stack[d])
  /\ (/\ RootWalkOver
      /\ \A n \in LeafFiles : fileRes[n] \in {"ok", "permanent"}
      /\ Cardinality({n \in LeafFiles : fileRes[n] = "permanent"}) = 1)
       => /\ Top.status = FALSE
          /\ \A n \in LeafFiles : fileRes[n] = "ok" => fs[LocalPathOf(n)] = "file"
C5_Witness ==
  /\ RootWalkOver
  /\ fileRes[2] = "permanent"
  /\ fileRes[4] = "ok"
  /\ fs[<<"d", "b">>] = "file"
  /\ Top.status = FALSE
  /\ Len(Top.results) = 2

\* C6: a run without references, or a run in stream mode with more than one
\* reference or with a folder reference, never invokes a session transfer
\* operation and returns non-zero.
UsageViolation ==
  \/ Len(av) = 0
  \/ opt_path = "-" /\ Len(av) > 1
  \/ opt_path = "-" /\ Len(av) = 1 /\ classify(av[1]).tag = "folder"
C6_UsageErrorsBeforeAnyTransfer ==
  UsageViolation => (~net_called /\ (pc = "done" => ret # 0))
C6_Witness ==
  /\ pc = "done"
  /\ opt_path = "-"
  /\ Len(av) = 2
  /\ ret = 1
  /\ ~net_called

\* C7: a successful run in stream mode has written to the output stream the
\* bytes of the fetched object, once, and nothing else.
C7_StreamHoldsExactlyTheObject ==
  (pc = "done" /\ opt_stream /\ ret = 0 /\ processed = <<"file">> /\ ~opt_print_names)
    => out = ObjectChunks

\* C10: a link that matches neither pattern gets the warning, no session
\* operation and no change of status, and the loop goes on with the next
\* link: a run that passed the usage checks, with such a link in it, ends
\* with every link dispatched.
IsInvalidTurn == pc = "loop" /\ i <= Len(av) /\ classify(av[i]).tag = "invalid"
C10_InvalidLinkIsSkipped ==
  /\ [][IsInvalidTurn
          => /\ msg' = <<ErrLine("WARNING: Skipping invalid Mega download link: %s", av[i])>>
             /\ net_called' = net_called
             /\ status' = status
             /\ pc' = "loop"
             /\ i' = i + 1]_vars
  /\ [](( /\ pc = "done"
          /\ \E k \in DOMAIN av : classify(av[k]).tag = "invalid"
          /\ ~(opt_path = "-" /\ Len(av) > 1))
          => /\ Len(processed) = Len(av)
             /\ \A k \in DOMAIN av : processed[k] = classify(av[k]).tag)
C10_Witness ==
  /\ pc = "done"
  /\ av = <<BadLink, FileLink>>
  /\ processed = <<"invalid", "file">>
  /\ ret = 0

\* C8: classify gives "file" exactly to the strings made of http or https,
\* "://", mega.nz or mega.co.nz, "/#!", 8 handle characters, "!", 43 key
\* characters, and "folder" exactly to those with "/#F!" and 22 key
\* characters (letters in either case, handle and key over [A-Za-z0-9_-]),
\* with the handle and key found in the string; every other string is invalid.
Alphabet == Range(LowerLetters) \cup Range(UpperLetters) \cup Digits \cup {"_", "-"}
SameLetters(a, b) ==
  /\ Len(a) = Len(b)
  /\ \A k \in DOMAIN a : ToLower(a[k]) = ToLower(b[k])
FormPrefixes(marker) ==
  {sc \o <<":","/","/">> \o ho \o <<"/">> \o marker :
     sc \in {<<"h","t","t","p">>, Https},
     ho \in {MegaNz, <<"m","e","g","a",".","c","o",".","n","z">>}}
HasForm(s, pre, keyLen) ==
  /\ Len(s) = Len(pre) + HandleLen + 1 + keyLen
  /\ SameLetters(SubSeq(s, 1, Len(pre)), pre)
  /\ \A k \in (Len(pre) + 1)..(Len(pre) + HandleLen) : s[k] \in Alphabet
  /\ s[Len(pre) + HandleLen + 1] = "!"
  /\ \A k \in (Len(pre) + HandleLen + 2)..Len(s) : s[k] \in Alphabet
Reference(tag, s, pre) ==
  [tag |-> tag,
   handle |-> SubSeq(s, Len(pre) + 1, Len(pre) + HandleLen),
   key |-> SubSeq(s, Len(pre) + HandleLen + 2, Len(s))]
Expected(s) ==
  LET filePre == {pre \in FormPrefixes(FileMarker) : HasForm(s, pre, FileKeyLen)}
      folderPre == {pre \in FormPrefixes(FolderMarker) : HasForm(s, pre, FolderKeyLen)}
  IN  IF filePre # {} THEN Reference("file", s, CHOOSE pre \in filePre : TRUE)
      ELSE IF folderPre # {} THEN Reference("folder", s, CHOOSE pre \in folderPre : TRUE)
      ELSE [tag |-> "invalid", handle |-> <<>>, key |-> <<>>]
C8_ClassifyExactlyTheGrammar ==
  parsed # NoParse => parsed = Expected(raw)

\* C9 as stated: a string and the string with some of its letters upper-cased
\* are classified to the same tag, handle and key.
C9_IdenticalUnderUpperCasing ==
  (parsed # NoParse /\ parsedUp # NoParse) => parsedUp = parsed

\* C9 as amended: they are classified to the same tag, and the handle and key
\* of the upper-cased string are those of the original up to the case of their
\* letters: the same characters, some of the letters upper-cased.
UpperCasedOf(a, b) ==
  /\ Len(a) = Len(b)
  /\ \A k \in DOMAIN a : a[k] \in {b[k], ToUpper(b[k])}
C9_SameUpToCase ==
  (parsed # NoParse /\ parsedUp # NoParse)
    => /\ parsedUp.tag = parsed.tag
       /\ UpperCasedOf(parsedUp.handle, parsed.handle)
       /\ UpperCasedOf(parsedUp.key, parsed.key)
       /\ SameLetters(parsedUp.handle, parsed.handle)
       /\ SameLetters(parsedUp.key, parsed.key)
C9_Witness ==
  /\ parsed.tag = "folder"
  /\ parsedUp.tag = "folder"
  /\ parsedUp.handle # parsed.handle
  /\ parsedUp.key # parsed.key

\* C11: the references are worked on one at a time, in the order of the
\* command line.  The loop index moves only forward, by one, and only while no
\* call of the session or of the tree sync is active and no retry loop is
\* running; every fetch, sleep, listing, directory creation and dispatch
\* happens for the reference the index stands on, which is the one dispatched
\* last (the whole subtree of a folder included); the k-th dispatch is that of
\* the k-th link.
OperationStep ==
  \/ fs' # fs
  \/ loopLog' # loopLog
  \/ xfer' # xfer
  \/ stack' # stack
  \/ root_list' # root_list
  \/ net_called' # net_called
  \/ processed' # processed
C11_OneReferenceAtATime ==
  [][/\ i' # i => /\ i' = i + 1
                  /\ pc' = "loop"
                  /\ stack' = <<>>
                  /\ xfer' = NoCall
                  /\ loopLog' = <<>>
                  /\ root_list' = <<>>
     /\ OperationStep => (i \in DOMAIN av /\ Len(processed') = i)
     /\ processed' # processed
          => processed' = Append(processed, classify(av[i]).tag)]_vars
C11_Witness ==
  /\ i = 2
  /\ processed = <<"folder", "folder">>
  /\ pc = "get_call"
  /\ Top.node = 2
  /\ fs[<<"d", "b">>] = "file"

\* C12: the directory step of the tree sync.  A missing local target is
\* created, or the creation fails and the step returns FALSE with the error;
\* a target that exists and is no directory makes the step return FALSE at
\* once with the "file exists" error, the file system untouched, no child
\* visited and no session call made; a target that is a directory is left as
\* it is and the children loop is entered, which calls the step of each child
\* in turn.
ReturnedFalse ==
  /\ Len(stack') = Len(Pop)
  /\ IF Pop = <<>>
       THEN pc' = "loop" /\ status' = 1 /\ i \in failed' /\ stack' = <<>>
       ELSE /\ pc' = "dir_loop"
            /\ \A d \in 1..(Len(Pop) - 1) : stack'[d] = stack[d]
            /\ stack'[Len(Pop)].idx = stack[Len(Pop)].idx + 1
            /\ stack'[Len(Pop)].status = FALSE
            /\ stack'[Len(Pop)].results
                 = Append(stack[Len(Pop)].results, [node |-> Top.node, r |-> FALSE])
C12_DirectoryStep ==
  [][/\ (pc = "dir_enter" /\ fs[Top.file] = "missing")
          => \/ /\ fs' = [fs EXCEPT ![Top.file] = "dir"]
                /\ stack' = stack
                /\ pc' = "dir_loop"
             \/ /\ fs' = fs
                /\ ReturnedFalse
                /\ msg'[Len(msg')]
                     = ErrLine("ERROR: Can't create local directory %s: %s", Top.file)
     /\ (pc = "dir_enter" /\ fs[Top.file] = "file")
          => /\ fs' = fs
             /\ ReturnedFalse
             /\ msg' = <<ErrLine("ERROR: Can't create local directory %s: file exists",
                                 Top.file)>>
             /\ Top.idx = 0 /\ Top.results = <<>>
             /\ net_called' = net_called /\ xfer' = xfer /\ loopLog' = loopLog
     /\ (pc = "dir_enter" /\ fs[Top.file] = "dir")
          => /\ fs' = fs
             /\ stack' = stack
             /\ pc' = "dir_loop"
     /\ (pc = "dir_loop" /\ Top.idx < Len(RemoteTree[Top.node].children))
          => /\ fs' = fs
             /\ Len(stack') = Len(stack) + 1
             /\ stack'[Len(stack')].node = RemoteTree[Top.node].children[Top.idx + 1]
             /\ pc' \in {"file_enter", "dir_enter"}]_vars
C12_Witness ==
  /\ pc = "dir_loop"
  /\ Len(stack) = 1
  /\ fs[<<"d">>] = "file"
  /\ Top.results = <<[node |-> 2, r |-> TRUE], [node |-> 3, r |-> FALSE]>>
  /\ msg = <<ErrLine("ERROR: Can't create local directory %s: file exists", <<"d">>)>>
  /\ fs[<<"d", "b">>] = "missing"

\* C13: once a folder is open and its root listing has no node or more than
\* one, the reference fails: the "multiple toplevel nodes" error is printed,
\* status becomes 1, no directory is created, no file step and no fetch
\* happens for it, and main goes on with the next reference.
C13_BadListingFailsTheReference ==
  [][(pc = "listed" /\ Len(root_list) # 1)
       => /\ msg' = <<ErrLine("ERROR: EXP folder fs has multiple toplevel nodes? Weird!", "")>>
          /\ status' = 1
          /\ i \in failed'
          /\ fs' = fs
          /\ stack' = <<>>
          /\ loopLog' = loopLog /\ xfer' = xfer /\ fileRes' = fileRes
          /\ pc' = "loop"
          /\ i' = i + 1]_vars
C13_Witness ==
  /\ pc = "loop"
  /\ i = 2
  /\ av = <<FolderLink, FileLink>>
  /\ msg = <<ErrLine("ERROR: EXP folder fs has multiple toplevel nodes? Weird!", "")>>
  /\ failed = {1}
  /\ status = 1
  /\ fs = EmptyDir
  /\ opt_path = "."

\* C14: the retry loop of the top-level download and the retry loop of the
\* file step of the tree sync are one function of the fetch outcomes fed to
\* them: at every point of either loop the fetches and sleeps made so far are
\* the beginning of what RetryRun makes of the outcomes so far followed by any
\* next outcome, a loop that has ended has made all of it, and it has ended
\* in failure exactly when its last fetch failed.  So, fed the same outcomes,
\* both make the same fetches and the same sleeps and give the same verdict.
RECURSIVE RetryRun(_, _, _)
RetryRun(feed, k, amt) ==
  IF k > 5 \/ feed = <<>>
    THEN <<>>
    ELSE (IF k > 1 THEN <<SleepEntry(amt)>> ELSE <<>>)
         \o <<FetchEntry(Head(feed))>>
         \o (IF IsTransient(Head(feed))
               THEN RetryRun(Tail(feed), k + 1, IF k > 1 THEN 2 * amt ELSE amt)
               ELSE <<>>)
ErrsOf(log) == [k \in DOMAIN Fetches(log) |-> Fetches(log)[k].err]
IsPrefix(a, b) == Len(a) <= Len(b) /\ SubSeq(b, 1, Len(a)) = a
InDlLoop == pc \in {"dl_head", "dl_call", "dl_done"}
InGetLoop == pc \in {"get_head", "get_call", "get_done"}
ConformsToRetryRun ==
  /\ \A e \in Errors \cup {NoError} :
       LET run == RetryRun(Append(ErrsOf(loopLog), e), 1, 2000000)
       IN  IF LoopEnded THEN loopLog = run ELSE IsPrefix(loopLog, run)
  /\ LoopEnded => (LoopVerdictFailure <=> loopLog[Len(loopLog)].err # NoError)
C14_LoopsAreOneFunction ==
  /\ InDlLoop => ConformsToRetryRun
  /\ InGetLoop => ConformsToRetryRun
C14_Witness ==
  /\ pc = "get_done"
  /\ processed = <<"file", "folder">>
  /\ loopLog = <<FetchEntry(HttpErrorNoResponse), SleepEntry(2000000),
                 FetchEntry(HttpErrorNoResponse), SleepEntry(4000000),
                 FetchEntry(NoError)>>
  /\ Top.status = TRUE

\* C15 as stated: a retry loop that ended with a successful fetch has printed
\* no error line for its file and counts as a success.
LoopSaid == IF pc = "dl_done" THEN reported ELSE Top.said
HasErrLine(lines) == \E k \in DOMAIN lines : lines[k].fd = "stderr"
C15_NoReportBeforeExhaustion ==
  (LoopEnded /\ Outcome(loopLog) = "ok") => (~LoopSaid /\ ~LoopVerdictFailure)

\* C15 as amended: every failed fetch prints its error line at once, on
\* stderr, transient or not; a loop that ended with a successful fetch counts
\* as a success, with an error line printed exactly when an earlier fetch of
\* it failed; a loop whose last failure was transient ends in failure only
\* after its fifth fetch.
C15_FailsOnlyAfterExhaustion ==
  /\ [][(\E e \in Errors : loopLog' = Append(loopLog, FetchEntry(e)))
          => (msg' # <<>> /\ msg'[Len(msg')].fd = "stderr")]_vars
  /\ []((LoopEnded /\ Outcome(loopLog) = "ok")
          => /\ ~LoopVerdictFailure
             /\ LoopSaid <=> Len(Fetches(loopLog)) > 1)
  /\ []((LoopEnded /\ LoopVerdictFailure)
          => /\ loopLog[Len(loopLog)].err # NoError
             /\ LoopSaid
             /\ IsTransient(loopLog[Len(loopLog)].err) => Len(Fetches(loopLog)) = 5)
C15_Witness ==
  /\ pc = "get_done"
  /\ loopLog = <<FetchEntry(HttpErrorNoResponse), SleepEntry(2000000), FetchEntry(NoError)>>
  /\ Top.said
  /\ Top.status = TRUE

\* C16: no operation ends in failure without an error or warning line on
\* stderr printed by it before it returns.  A call of dl_sync_file or
\* dl_sync_dir that returns FALSE prints one in its last step or has printed
\* one earlier (its own, or that of a call below it); a top-level download
\* that ends in failure has printed one in its loop; a folder open, a root
\* listing check or a target check that fails, a link that is skipped and a
\* usage check that ends the run each print theirs in the same step.  (said
\* and reported turn TRUE only in a step that prints such a line, or when a
\* call hands its own said to its caller.)
FrameReturnsFalse ==
  /\ stack # <<>>
  /\ Len(stack') = Len(stack) - 1
  /\ IF Pop = <<>>
       THEN i \in failed'
       ELSE stack'[Len(stack')].results[Len(stack'[Len(stack')].results)].r = FALSE
C16_EveryFailureSpeaks ==
  [][/\ FrameReturnsFalse => (Top.said \/ HasErrLine(msg'))
     /\ (pc = "dl_done" /\ i \in failed') => reported
     /\ (pc' = "dl_done" /\ status' = 1) => reported'
     /\ (pc \in {"loop", "listed"} /\ i \in failed') => HasErrLine(msg')
     /\ IsInvalidTurn => HasErrLine(msg')
     /\ ((pc = "start" /\ pc' = "done") \/ (IsFolderTurn /\ opt_stream))
          => (ret' = 1 /\ HasErrLine(msg'))
     /\ (reported' /\ ~reported) => HasErrLine(msg')
     /\ \A d \in DOMAIN stack' :
          (stack'[d].said /\ (d \in DOMAIN stack => ~stack[d].said))
            => \/ HasErrLine(msg')
               \/ (Len(stack') = Len(stack) - 1 /\ d = Len(stack') /\ Top.said)]_vars
C16_Witness ==
  /\ pc = "dir_loop"
  /\ Len(stack) = 1
  /\ Top.results = <<[node |-> 2, r |-> TRUE], [node |-> 3, r |-> FALSE]>>
  /\ fileRes[4] = "exhausted"
  /\ Top.said
  /\ msg = <<>>

\* C17: a step in which the session delivers a status event leaves in
\* cur_file the name of the event when it is a FILEINFO event and what was
\* there when it is a PROGRESS or DATA event; no other step changes cur_file
\* (so it holds the name of the latest FILEINFO event); and the name in the
\* "Downloaded" line and in the --print-names line of a top-level download is
\* cur_file as it stands when mega_session_dl returns TRUE.
EventStep == xfer'.sent + xfer'.evs = xfer.sent + xfer.evs + 1
C17_CurrentFileIsLatestFileInfo ==
  [][/\ EventStep => \E data \in StatusData : status_callback(data)
     /\ \A data \in StatusData :
          status_callback(data)
            => cur_file' = IF data.type = "MEGA_STATUS_FILEINFO" THEN data.name
                           ELSE cur_file
     /\ ~EventStep => cur_file' = cur_file
     /\ (pc = "dl_call" /\ pc' = "dl_done" /\ status' = 0)
          => /\ ~opt_noprogress => msg'[1] = OutLine("Downloaded %s", cur_file)
             /\ opt_print_names => msg'[Len(msg')] = OutLine(cur_file, "")]_vars
C17_Witness ==
  /\ pc = "dl_done"
  /\ status = 0
  /\ reported
  /\ cur_file = "n2"
  /\ msg = <<OutLine("Downloaded %s", "n2"), OutLine("n2", "")>>

\* C18: in every state stream mode implies that progress is off; in stream
\* mode no progress line is ever rendered, and during a fetch the buffers of
\* the DATA events delivered so far are the end of what was written to
\* stdout, in the order of the events; outside stream mode the status
\* callback writes nothing to stdout.
C18_StreamImpliesNoProgress ==
  /\ opt_stream => opt_noprogress
  /\ opt_stream => tty = "-"
  /\ (opt_stream /\ pc = "dl_call")
       => /\ Len(out) >= xfer.sent
          /\ SubSeq(out, Len(out) - xfer.sent + 1, Len(out))
               = SubSeq(ObjectChunks, 1, xfer.sent)
  /\ ~opt_stream => out = <<>>
C18_Witness ==
  /\ opt_stream
  /\ pc = "dl_call"
  /\ xfer = [sent |-> 2, evs |-> 1]
  /\ cur_file = "NULL"
  /\ attempts = 1
  /\ tty = "-"

\* C19: every run ends with main returned: Rank is a natural number that
\* every step makes smaller, it is 0 only when main has returned, and before
\* that a step is always possible.  A retry loop makes at most 5 fetches and
\* at most 4 sleeps, one fetch at a time; and a tree sync calls the step of a
\* remote node at most once: the frames of the stack are a path of the
\* remote tree, each directory frame has called exactly its first idx
\* children, in order, and is inside the call of the next, and the file step
\* of a node being called has not ended before.
\* (CallRank, LoopRank, NodeRank: the steps left, at most, in a session call,
\* in a retry loop, in the step of a remote node.)
CallRank == (Len(ObjectChunks) - xfer.sent) + (MaxEvents - xfer.evs) + 1
AttemptRank == Len(ObjectChunks) + MaxEvents + 2
LoopRank ==
  CASE pc \in {"dl_head", "get_head"} -> (5 - attempts) * AttemptRank + 2
    [] pc \in {"dl_call", "get_call"} -> (4 - attempts) * AttemptRank + 2 + CallRank
    [] OTHER -> 1
FileRank == 5 * AttemptRank + 3
RECURSIVE NodeRank(_)
SumRank(children, from) ==
  LET Sum[k \in 0..Len(children)] ==
        IF k < from THEN 0
        ELSE (IF k = from THEN 0 ELSE Sum[k - 1]) + 1 + NodeRank(children[k])
  IN  IF from > Len(children) THEN 0 ELSE Sum[Len(children)]
NodeRank(n) ==
  IF RemoteTree[n].type = 0 THEN FileRank
  ELSE 2 + SumRank(RemoteTree[n].children, 1)
NodeRanks == [n \in Nodes |-> NodeRank(n)]
\* RestRanks[n][k]: the steps left in the call on directory n once the calls
\* on its first k children have returned.
RestRanks ==
  [n \in Nodes |-> [k \in 0..(Len(RemoteTree[n].children) + 1) |->
                      1 + SumRank(RemoteTree[n].children, k + 1)]]
FrameRank(d) ==
  LET f == stack[d]
  IN  IF d < Len(stack) THEN RestRanks[f.node][f.idx + 1]
      ELSE CASE pc = "dir_enter" -> NodeRanks[f.node]
             [] pc = "dir_loop" -> RestRanks[f.node][f.idx]
             [] pc = "file_enter" -> FileRank
             [] OTHER -> LoopRank
StackRank ==
  LET Sum[d \in 0..Len(stack)] == IF d = 0 THEN 0 ELSE Sum[d - 1] + FrameRank(d)
  IN  Sum[Len(stack)]
RefRank == FileRank + NodeRank(RootNode) + 3
Rank ==
  CASE pc = "done" -> 0
    [] pc = "start" -> Len(av) * RefRank + 2
    [] pc = "loop" -> (Len(av) + 1 - i) * RefRank + 1
    [] pc = "listed" -> (Len(av) - i) * RefRank + 1 + NodeRanks[RootNode] + 1
    [] stack # <<>> -> (Len(av) - i) * RefRank + 1 + StackRank
    [] OTHER -> (Len(av) - i) * RefRank + 1 + LoopRank
NodeOncePerWalk ==
  /\ \A d \in DOMAIN stack :
       /\ d < Len(stack)
            => /\ stack[d].fn = "dl_sync_dir"
               /\ stack[d].idx < Len(RemoteTree[stack[d].node].children)
               /\ stack[d + 1].node = RemoteTree[stack[d].node].children[stack[d].idx + 1]
       /\ Len(stack[d].results) = stack[d].idx
       /\ \A k \in DOMAIN stack[d].results :
            stack[d].results[k].node = RemoteTree[stack[d].node].children[k]
       /\ \A e \in DOMAIN stack : stack[e].node = stack[d].node => e = d
  /\ (stack # <<>> /\ Top.fn = "dl_sync_file") => fileRes[Top.node] = "none"
LoopBounded ==
  /\ Len(Fetches(loopLog)) <= 5
  /\ Len(Sleeps(loopLog)) <= 4
  /\ attempts <= 5
  /\ pc \in {"dl_call", "get_call"} => Len(Fetches(loopLog)) <= 4
C19_RunTerminates ==
  /\ [][Rank' < Rank]_vars
  /\ [](Rank >= 0 /\ (Rank = 0 <=> pc = "done"))
  /\ [](pc = "done" \/ ENABLED Next)
  /\ [](LoopBounded /\ NodeOncePerWalk)
C19_Witness ==
  /\ pc = "done"
  /\ Len(av) = 2
  /\ failed = {1, 2}
  /\ fs[<<"d", "b">>] = "file"
  /\ fs[<<"a">>] = "dir"

\* C20: while a folder is synced, the local and remote paths of every call
\* below the root's are those of its caller extended by the name of its
\* remote node, and the local path of the caller is a directory: whenever a
\* child is fetched or created its parent is there.  Only the local path of
\* the innermost call is ever written.
ParentOf(file) == SubSeq(file, 1, Len(file) - 1)
C20_ParentDirectoryFirst ==
  /\ [](\A d \in 2..Len(stack) :
          /\ stack[d].file = Append(stack[d - 1].file, RemoteTree[stack[d].node].name)
          /\ stack[d].remote_path
               = Append(stack[d - 1].remote_path, RemoteTree[stack[d].node].name)
          /\ fs[stack[d - 1].file] = "dir")
  /\ [][(fs' # fs \/ pc' \in {"get_call"})
          => /\ Len(stack) >= 2
             /\ \A p \in LocalPaths \ {Top.file} : fs'[p] = fs[p]
             /\ ParentOf(Top.file) = stack[Len(stack) - 1].file
             /\ fs[ParentOf(Top.file)] = "dir"
             /\ fs'[ParentOf(Top.file)] = "dir"]_vars
C20_Witness ==
  /\ pc = "get_call"
  /\ Len(stack) = 3
  /\ Top.file = <<"d", "b">>
  /\ Top.remote_path = <<"Root", "d", "b">>
  /\ fs[<<"a">>] = "dir"
  /\ fs[<<"d">>] = "dir"

====
